---------------------------- MODULE Spec2Model ----------------------------
(***************************************************************************)
(* A model of the rich-text editor of src/editor.tsx and src/menu-bar.tsx: *)
(* the drop / paste upload pipeline, the file-picker upload, and the link  *)
(* dialog that attaches a destination to a customImage node or to a text   *)
(* range.                                                                  *)
(*                                                                         *)
(* The document is a sequence of paragraphs, each a sequence of inline     *)
(* items (a text character carrying an optional link mark, or an atomic    *)
(* customImage node).  Positions are the document engine's positions: a    *)
(* paragraph costs one position for its opening and one for its closing    *)
(* token, every inline item costs one.  Strings that the code inspects     *)
(* (URLs) are sequences of one-character strings.                          *)
(***************************************************************************)
EXTENDS Integers, Sequences, FiniteSets, TLC

VARIABLES
    doc,              \* view.state.doc / editor.state.doc
    selection,        \* view.state.selection: [from, to]
    gestures,         \* the drop / paste events handled so far, with the handler's result
    tasks,            \* the uploads started by handleDrop / handlePaste, with their closures
    log,              \* the observable effects of the upload pipeline, in order
    isLinkDialogOpen, \* menu-bar.tsx useState
    linkUrl,          \* menu-bar.tsx useState
    linkError,        \* menu-bar.tsx useState
    isUploading,      \* menu-bar.tsx useState
    picker,           \* the file-picker upload in flight and what became of it
    last,             \* the last handler of the menu bar that ran, and what it issued
    call              \* the last call of the URL policy or of the HTML rules, with its result

vars == <<doc, selection, gestures, tasks, log, isLinkDialogOpen, linkUrl,
          linkError, isUploading, picker, last, call>>

uploadVars == <<gestures, tasks, log>>
dialogVars == <<isLinkDialogOpen, linkUrl, linkError>>
pickerVars == <<isUploading, picker>>

----------------------------------------------------------------------------
(* Bounds of the model *)

\* uploads started in one run, and gestures handled in one run
MaxUploads == 2
\* inline items up to which the user types into the document
MaxItems == 3

----------------------------------------------------------------------------
(* Values *)

\* JavaScript's null, for an attribute that holds a string otherwise: a
\* sequence holding a token that is not a character
Null == <<"null">>

\* the empty string
Empty == <<>>

Digit == <<"1", "2", "3", "4", "5", "6", "7", "8", "9">>

acceptedTypes == {"image/jpeg", "image/png", "image/gif"}

\* the content types a picked file declares
FileTypes == {"image/png", "image/jpeg", "image/gif", "text/plain", "application/pdf"}

\* the transport's answer for file i of gesture g: { fileUrl }
FileUrl(g, i) == <<"u", Digit[g], Digit[i]>>

Text(link) == [type |-> "text", link |-> link]

\* a customImage node with its attributes (addAttributes)
Image(src, alt, title, width, height, href) ==
    [type |-> "customImage", src |-> src, alt |-> alt, title |-> title,
     width |-> width, height |-> height, href |-> href]

\* schema.nodes.customImage.create({ src }): the other attributes at their default
CustomImage(src, href) == Image(src, Null, Null, Null, Null, href)

----------------------------------------------------------------------------
(* The document engine: positions, insertion, deletion *)

RECURSIVE ParaStart(_, _)
\* the position before the opening token of paragraph i (i = Len(d) + 1: the end)
ParaStart(d, i) == IF i = 1 THEN 0 ELSE ParaStart(d, i - 1) + Len(d[i - 1]) + 2

\* doc.content.size
DocSize(d) == ParaStart(d, Len(d) + 1)

\* the position lies in the inline content of a paragraph
IsInside(d, q) ==
    \E i \in 1..Len(d) : q \in (ParaStart(d, i) + 1)..(ParaStart(d, i) + 1 + Len(d[i]))

ParaOf(d, q) ==
    CHOOSE i \in 1..Len(d) : q \in (ParaStart(d, i) + 1)..(ParaStart(d, i) + 1 + Len(d[i]))

OffsetOf(d, q) == q - ParaStart(d, ParaOf(d, q)) - 1

\* the inline items of the document in document order, with their positions
ItemPositions(d) == {q \in 1..DocSize(d) : IsInside(d, q) /\ OffsetOf(d, q) < Len(d[ParaOf(d, q)])}

ItemAt(d, q) == d[ParaOf(d, q)][OffsetOf(d, q) + 1]

\* doc.resolve(pos) throws a RangeError outside 0..doc.content.size
CanInsert(d, pos) == pos \in 0..DocSize(d)

\* an insertion that takes the place of the item at pos
InsertOver(d, pos, node) ==
    IF IsInside(d, pos)
    THEN LET i == ParaOf(d, pos)
             k == OffsetOf(d, pos)
         IN  [d EXCEPT ![i] = SubSeq(@, 1, k) \o <<node>> \o SubSeq(@, k + 2, Len(@))]
    ELSE LET i == CHOOSE j \in 1..(Len(d) + 1) : ParaStart(d, j) = pos
         IN  SubSeq(d, 1, i - 1) \o << <<node>> >> \o SubSeq(d, i, Len(d))

\* tr.insert(pos, node) of an inline node: into the paragraph that holds pos,
\* or, between two blocks, wrapped into a paragraph of its own
Insert(d, pos, node) ==
    IF IsInside(d, pos)
    THEN LET i == ParaOf(d, pos)
             k == OffsetOf(d, pos)
         IN  [d EXCEPT ![i] = SubSeq(@, 1, k) \o <<node>> \o SubSeq(@, k + 1, Len(@))]
    ELSE LET i == CHOOSE j \in 1..(Len(d) + 1) : ParaStart(d, j) = pos
         IN  SubSeq(d, 1, i - 1) \o << <<node>> >> \o SubSeq(d, i, Len(d))

\* the positions the insertion adds
InsertedSize(d, pos) == IF IsInside(d, pos) THEN 1 ELSE 3

\* Mapping a position of the selection through an insertion at pos
MapInsert(q, pos, size) == IF q >= pos THEN q + size ELSE q

\* how many inline items of the document are customImage nodes with this src
RECURSIVE CountSrcIn(_, _)
CountSrcIn(s, src) ==
    IF s = <<>> THEN 0
    ELSE (IF Head(s).type = "customImage" /\ Head(s).src = src THEN 1 ELSE 0)
         + CountSrcIn(Tail(s), src)

RECURSIVE CountSrc(_, _)
CountSrc(d, src) ==
    IF d = <<>> THEN 0 ELSE CountSrcIn(Head(d), src) + CountSrc(Tail(d), src)

RECURSIVE ItemCount(_)
ItemCount(d) == IF d = <<>> THEN 0 ELSE Len(Head(d)) + ItemCount(Tail(d))

----------------------------------------------------------------------------
(* The upload pipeline of handleDrop and handlePaste *)

\* files.filter((file) => acceptedTypes.includes(file.type)), as indices of files
imageFiles(files) == SelectSeq([i \in 1..Len(files) |-> i], LAMBDA i : files[i] \in acceptedTypes)

\* files.filter((file) => !acceptedTypes.includes(file.type))
invalidFiles(files) == SelectSeq([i \in 1..Len(files) |-> i], LAMBDA i : files[i] \notin acceptedTypes)

Event(e, g, i, v) == [e |-> e, g |-> g, i |-> i, v |-> v]

\* a warning for each invalid file instead of one for the gesture
WarnEventsPerFile(g, files) ==
    [k \in 1..Len(invalidFiles(files)) |-> Event("toast.warning", g, 0, 0)]

\* toast.error("Please Drop only valid image files ..."), when a file is invalid
WarnEvents(g, files) ==
    IF Len(invalidFiles(files)) > 0 THEN <<Event("toast.warning", g, 0, 0)>> ELSE <<>>

\* the handler going on without the check of imageFiles.length
AcceptsAnyFile(files) == Len(files) > 0

\* the handler goes on to upload: some file is accepted
Accepts(files) == Len(files) > 0 /\ Len(imageFiles(files)) > 0

\* const pos = view.state.selection.from
CapturePos(sel) == sel.from

\* event.preventDefault(); const pos = view.state.selection.from
CaptureEvents(g, sel) ==
    <<Event("preventDefault", g, 0, 0), Event("read selection.from", g, 0, CapturePos(sel))>>

\* for (const file of imageFiles) uploadFile(file, ...)
UploadEvents(g, files) ==
    [k \in 1..Len(imageFiles(files)) |-> Event("uploadFile", g, imageFiles(files)[k], 0)]

\* the closures the loop creates: the file and the captured pos
NewTasks(g, files, sel) ==
    [k \in 1..Len(imageFiles(files)) |->
        [g |-> g, i |-> imageFiles(files)[k], pos |-> CapturePos(sel), st |-> "pending"]]

\* everything the handler does before it returns
HandlerEvents(g, files, sel) ==
    IF Len(files) = 0 THEN <<>>
    ELSE IF ~Accepts(files) THEN WarnEvents(g, files)
    ELSE WarnEvents(g, files) \o CaptureEvents(g, sel) \o UploadEvents(g, files)

\* true returned whenever the gesture carries files
HandlerReturnTrue(files) == Len(files) > 0

\* the value the handler returns
HandlerReturn(files) == Accepts(files)

handleGesture(files) ==
    /\ Len(gestures) < MaxUploads
    /\ Len(tasks) + Len(imageFiles(files)) <= MaxUploads
    /\ LET g == Len(gestures) + 1
       IN  /\ gestures' = Append(gestures,
                  [files |-> files, at |-> selection.from, ret |-> HandlerReturn(files)])
           /\ log' = log \o HandlerEvents(g, files, selection)
           /\ tasks' = IF Accepts(files) THEN tasks \o NewTasks(g, files, selection) ELSE tasks
    /\ UNCHANGED <<doc, selection, dialogVars, pickerVars, last, call>>

\* the file lists of a gesture, by the content types of the files: none, one
\* file, siblings that are all accepted, all rejected, or some of each
FileLists ==
    { <<>>,
      <<"image/png">>,
      <<"text/plain">>,
      <<"image/gif", "image/png">>,
      <<"image/jpeg", "text/plain">>,
      <<"text/plain", "application/pdf">>,
      <<"application/pdf", "image/png", "text/plain">> }

handleDrop == \E files \in FileLists : handleGesture(files)

handlePaste == \E files \in FileLists : handleGesture(files)

\* the position read again when the upload resolves
InsertPosAtCompletion(t) == selection.from

\* the position the continuation hands to tr.insert
InsertPos(t) == t.pos

\* the success reported before the insertion is made
ThenEventsReportFirst(t, d) ==
    IF CanInsert(d, InsertPos(t))
    THEN <<Event("toast.success", t.g, t.i, 0), Event("insert", t.g, t.i, InsertPos(t))>>
    ELSE <<Event("toast.error", t.g, t.i, 0)>>

\* the continuation without a .catch behind it: the throw of tr.insert leaves
\* the task
ThenEventsUncaught(t, d) ==
    IF CanInsert(d, InsertPos(t))
    THEN <<Event("insert", t.g, t.i, InsertPos(t)), Event("toast.success", t.g, t.i, 0)>>
    ELSE <<Event("uncaught", t.g, t.i, 0)>>

\* .then(({ fileUrl }) => { create; insert; dispatch; toast.success })
\*  with a throw of tr.insert landing in .catch
ThenEvents(t, d) ==
    IF CanInsert(d, InsertPos(t))
    THEN <<Event("insert", t.g, t.i, InsertPos(t)), Event("toast.success", t.g, t.i, 0)>>
    ELSE <<Event("toast.error", t.g, t.i, 0)>>

\* the rejection swallowed without a notification
CatchSilently(t) == <<>>

\* .catch((error) => { toast.error(`Failed to upload image ...`) })
CatchEvents(t) == <<Event("toast.error", t.g, t.i, 0)>>

\* the customImage node the continuation creates
CreatedNode(t) == CustomImage(FileUrl(t.g, t.i), Null)

\* the upload of task k resolving only once the uploads started before it are
\* settled
UploadResolveInTurn(k) ==
    /\ tasks[k].st = "pending"
    /\ \A j \in 1..(k - 1) : tasks[j].st = "settled"
    /\ LET t == tasks[k]
           pos == InsertPos(t)
       IN  /\ tasks' = [tasks EXCEPT ![k].st = "settled"]
           /\ log' = log \o <<Event("resolved", t.g, t.i, 0)>> \o ThenEvents(t, doc)
           /\ IF CanInsert(doc, pos)
              THEN /\ doc' = Insert(doc, pos, CreatedNode(t))
                   /\ selection' =
                        [from |-> MapInsert(selection.from, pos, InsertedSize(doc, pos)),
                         to |-> MapInsert(selection.to, pos, InsertedSize(doc, pos))]
              ELSE UNCHANGED <<doc, selection>>
    /\ UNCHANGED <<gestures, dialogVars, pickerVars, last, call>>

\* the upload of task k resolves with { fileUrl }
UploadResolve(k) ==
    /\ tasks[k].st = "pending"
    /\ LET t == tasks[k]
           pos == InsertPos(t)
       IN  /\ tasks' = [tasks EXCEPT ![k].st = "settled"]
           /\ log' = log \o <<Event("resolved", t.g, t.i, 0)>> \o ThenEvents(t, doc)
           /\ IF CanInsert(doc, pos)
              THEN /\ doc' = Insert(doc, pos, CreatedNode(t))
                   /\ selection' =
                        [from |-> MapInsert(selection.from, pos, InsertedSize(doc, pos)),
                         to |-> MapInsert(selection.to, pos, InsertedSize(doc, pos))]
              ELSE UNCHANGED <<doc, selection>>
    /\ UNCHANGED <<gestures, dialogVars, pickerVars, last, call>>

\* the upload of task k is rejected by the transport
UploadReject(k) ==
    /\ tasks[k].st = "pending"
    /\ tasks' = [tasks EXCEPT ![k].st = "settled"]
    /\ log' = log \o <<Event("rejected", tasks[k].g, tasks[k].i, 0)>> \o CatchEvents(tasks[k])
    /\ UNCHANGED <<doc, selection, gestures, dialogVars, pickerVars, last, call>>

UploadSettle == \E k \in 1..Len(tasks) : UploadResolve(k) \/ UploadReject(k)

----------------------------------------------------------------------------
(* The user editing the document in the editor's content area *)

\* a collapsed selection
Cursor(q) == [from |-> q, to |-> q]

\* the positions inside inline content, where a selection may start or end
InsidePositions(d) == {q \in 1..DocSize(d) : IsInside(d, q)}

\* the user clicks or moves with the arrow keys: a collapsed selection
MoveCursor ==
    /\ ~isLinkDialogOpen
    /\ \E q \in InsidePositions(doc) : Cursor(q) # selection /\ selection' = Cursor(q)
    /\ UNCHANGED <<doc, uploadVars, dialogVars, pickerVars, last, call>>

\* the user drags or clicks a node: a range
SelectRange ==
    /\ ~isLinkDialogOpen
    /\ \E a, b \in InsidePositions(doc) :
          /\ a < b
          /\ [from |-> a, to |-> b] # selection
          /\ selection' = [from |-> a, to |-> b]
    /\ UNCHANGED <<doc, uploadVars, dialogVars, pickerVars, last, call>>

\* the user types a character at the cursor
TypeText ==
    /\ selection.from = selection.to
    /\ ItemCount(doc) < MaxItems
    /\ doc' = Insert(doc, selection.from, Text(Null))
    /\ selection' = Cursor(selection.from + 1)
    /\ UNCHANGED <<uploadVars, dialogVars, pickerVars, last, call>>

\* d without the inline item that starts at position q
DeleteAt(d, q) ==
    LET i == ParaOf(d, q)
        k == OffsetOf(d, q)
    IN  [d EXCEPT ![i] = SubSeq(@, 1, k) \o SubSeq(@, k + 2, Len(@))]

\* the user deletes the item before the cursor (Backspace)
DeleteBack ==
    /\ selection.from = selection.to
    /\ selection.from - 1 \in ItemPositions(doc)
    /\ doc' = DeleteAt(doc, selection.from - 1)
    /\ selection' = Cursor(selection.from - 1)
    /\ UNCHANGED <<uploadVars, dialogVars, pickerVars, last, call>>

----------------------------------------------------------------------------
(* Strings and the URL checks *)

Letters == {"a", "b", "c", "d", "e", "f", "g", "h", "i", "j", "k", "l", "m",
            "n", "o", "p", "q", "r", "s", "t", "u", "v", "w", "x", "y", "z"}

Digits == {"0", "1", "2", "3", "4", "5", "6", "7", "8", "9"}

LowerCase == <<"a", "b", "c", "d", "e", "f", "g", "h", "i", "j", "k", "l", "m", "n", "o", "p", "q", "r", "s", "t", "u", "v", "w", "x", "y", "z">>

UpperCase == <<"A", "B", "C", "D", "E", "F", "G", "H", "I", "J", "K", "L", "M", "N", "O", "P", "Q", "R", "S", "T", "U", "V", "W", "X", "Y", "Z">>

\* the ASCII lower case of a character, and of a string
Lower(c) ==
    IF \E j \in DOMAIN UpperCase : UpperCase[j] = c
    THEN LowerCase[CHOOSE j \in DOMAIN UpperCase : UpperCase[j] = c]
    ELSE c

ToLower(u) == [j \in DOMAIN u |-> Lower(u[j])]

\* u holds p from index at on
HasAt(u, p, at) == Len(u) >= at + Len(p) - 1 /\ SubSeq(u, at, at + Len(p) - 1) = p

\* the regular expression . matches every character but a line terminator
Dot(c) == c \notin {"\n", "\r"}

\* a check that takes every scheme
UrlFormatAnyScheme(u) ==
    \E j \in DOMAIN u : j > 1 /\ HasAt(u, <<":", "/", "/">>, j) /\ Len(u) >= j + 3

\* /^https?:\/\/.+$/.test(u)
UrlFormatOk(u) ==
    /\ HasAt(u, <<"h", "t", "t", "p">>, 1)
    /\ \/ /\ HasAt(u, <<"s", ":", "/", "/">>, 5)
          /\ Len(u) >= 9
          /\ \A j \in 9..Len(u) : Dot(u[j])
       \/ /\ HasAt(u, <<":", "/", "/">>, 5)
          /\ Len(u) >= 8
          /\ \A j \in 8..Len(u) : Dot(u[j])

\* the first index of u that holds a character of cs, or Len(u) + 1
FirstOf(u, cs) ==
    IF \E j \in DOMAIN u : u[j] \in cs
    THEN CHOOSE j \in DOMAIN u : u[j] \in cs /\ \A k \in 1..(j - 1) : u[k] \notin cs
    ELSE Len(u) + 1

RECURSIVE SkipSlashes(_)
SkipSlashes(u) == IF u # <<>> /\ Head(u) \in {"/", "\\"} THEN SkipSlashes(Tail(u)) ELSE u

SpecialSchemes == {<<"h", "t", "t", "p">>, <<"h", "t", "t", "p", "s">>, <<"f", "t", "p">>,
                   <<"f", "i", "l", "e">>, <<"w", "s">>, <<"w", "s", "s">>}

\* the characters a host may not hold
ForbiddenHost == {" ", "#", "/", ":", "<", ">", "?", "@", "[", "\\", "]", "^", "|", "%"}

\* new URL(u): [ok, protocol, hostname]; ok is FALSE where the constructor throws
ParseUrl(u) ==
    LET c == FirstOf(u, {":"})
        scheme == ToLower(SubSeq(u, 1, c - 1))
        rest == SubSeq(u, c + 1, Len(u))
        failure == [ok |-> FALSE, protocol |-> <<>>, hostname |-> <<>>]
    IN  IF \/ c > Len(u)
           \/ scheme = <<>>
           \/ scheme[1] \notin Letters
           \/ \E j \in DOMAIN scheme : scheme[j] \notin Letters \cup Digits \cup {"+", "-", "."}
        THEN failure
        ELSE IF scheme \in SpecialSchemes \ {<<"f", "i", "l", "e">>}
        THEN LET after == SkipSlashes(rest)
                 authority == SubSeq(after, 1, FirstOf(after, {"/", "\\", "?", "#"}) - 1)
                 host == ToLower(SubSeq(authority, 1, FirstOf(authority, {":"}) - 1))
                 port == SubSeq(authority, FirstOf(authority, {":"}) + 1, Len(authority))
             IN  IF \/ host = <<>>
                    \/ \E j \in DOMAIN host : host[j] \in ForbiddenHost
                    \/ \E j \in DOMAIN port : port[j] \notin Digits
                 THEN failure
                 ELSE [ok |-> TRUE, protocol |-> scheme \o <<":">>, hostname |-> host]
        ELSE IF HasAt(rest, <<"/", "/">>, 1)
        THEN LET after == SubSeq(rest, 3, Len(rest))
                 authority == SubSeq(after, 1, FirstOf(after, {"/", "?", "#"}) - 1)
                 host == SubSeq(authority, 1, FirstOf(authority, {":"}) - 1)
             IN  IF \E j \in DOMAIN host : host[j] \in ForbiddenHost
                 THEN failure
                 ELSE [ok |-> TRUE, protocol |-> scheme \o <<":">>, hostname |-> host]
        ELSE [ok |-> TRUE, protocol |-> scheme \o <<":">>, hostname |-> <<>>]

\* Link.configure({ defaultProtocol: "https", protocols: ["http", "https"] })
defaultProtocol == <<"h", "t", "t", "p", "s">>

protocols == {<<"h", "t", "t", "p">>, <<"h", "t", "t", "p", "s">>}

disallowedProtocols == {<<"f", "t", "p">>, <<"f", "i", "l", "e">>, <<"m", "a", "i", "l", "t", "o">>}

disallowedDomains ==
    { <<"e", "x", "a", "m", "p", "l", "e", "-", "p", "h", "i", "s", "h", "i", "n", "g", ".", "c", "o", "m">>,
      <<"m", "a", "l", "i", "c", "i", "o", "u", "s", "-", "s", "i", "t", "e", ".", "n", "e", "t">> }

\* parsedUrl.protocol.replace(":", "")
StripColon(pr) ==
    LET c == FirstOf(pr, {":"})
    IN  SubSeq(pr, 1, c - 1) \o SubSeq(pr, c + 1, Len(pr))

\* the policy without the default protocol put before an input that has no colon
isAllowedUriAsGiven(url) ==
    LET parsedUrl == ParseUrl(url)
        protocol == StripColon(parsedUrl.protocol)
    IN  /\ parsedUrl.ok
        /\ protocol \notin disallowedProtocols
        /\ protocol \in protocols
        /\ parsedUrl.hostname \notin disallowedDomains

\* Link.configure({ isAllowedUri }): false where parsing throws
isAllowedUri(url) ==
    LET parsedUrl == IF \E j \in DOMAIN url : url[j] = ":"
                     THEN ParseUrl(url)
                     ELSE ParseUrl(defaultProtocol \o <<":", "/", "/">> \o url)
        protocol == StripColon(parsedUrl.protocol)
    IN  /\ parsedUrl.ok
        /\ protocol \notin disallowedProtocols
        /\ protocol \in protocols
        /\ parsedUrl.hostname \notin disallowedDomains

----------------------------------------------------------------------------
(* The link dialog of the menu bar: setLink, handleSaveLink, unsetLink *)

IsImage(d, q) == q \in ItemPositions(d) /\ ItemAt(d, q).type = "customImage"

IsLinkedText(d, q) ==
    q \in ItemPositions(d) /\ ItemAt(d, q).type = "text" /\ ItemAt(d, q).link # Null

\* the inline nodes doc.nodesBetween(from, to, f) hands to f, in document
\* order: those that end after from and start before to
Visited(d, from, to) == {q \in ItemPositions(d) : q + 1 > from /\ q < to}

\* a scan that sees a node only where the selection is exactly the node
ScanImageExactly(d, sel) ==
    IF IsImage(d, sel.from) /\ sel.to = sel.from + 1 THEN sel.from ELSE 0

\* the callback of the scan assigns node and pos at every customImage it is
\* handed (its return false keeps the walk out of the node's children, and
\* the walk goes on with the next sibling): they end as the last one
ScanImage(d, sel) ==
    LET found == {q \in Visited(d, sel.from, sel.to) : IsImage(d, q)}
    IN  IF found = {} THEN 0 ELSE CHOOSE q \in found : \A r \in found : r <= q

\* value || ""
OrEmpty(v) == IF v = Null THEN Empty ELSE v

\* the value as it is, the empty string too
OrNullKeepsEmpty(v) == v

\* value || null
OrNull(v) == IF v = Empty THEN Null ELSE v

\* editor.getAttributes("link").href: the link mark at a collapsed selection
\* (the marks of the item before it, after it at the start of a paragraph),
\* or the first link mark in the range
LinkAttribute(d, sel) ==
    IF sel.from = sel.to
    THEN IF OffsetOf(d, sel.from) > 0
         THEN (IF IsLinkedText(d, sel.from - 1) THEN ItemAt(d, sel.from - 1).link ELSE Null)
         ELSE (IF IsLinkedText(d, sel.from) THEN ItemAt(d, sel.from).link ELSE Null)
    ELSE LET linked == {q \in Visited(d, sel.from, sel.to) : IsLinkedText(d, q)}
         IN  IF linked = {} THEN Null
             ELSE ItemAt(d, CHOOSE q \in linked : \A r \in linked : q <= r).link

\* a handler of the menu bar ran; rep: it did what the handler before it did
Ran(op, mode, pos) ==
    [op |-> op, mode |-> mode, pos |-> pos, n |-> 1 - last.n,
     rep |-> (last.op = op /\ last.mode = mode /\ last.pos = pos)]

\* the toolbar is out of reach while the modal dialog is open
setLink ==
    /\ ~isLinkDialogOpen
    /\ LET pos == ScanImage(doc, selection)
       IN  IF pos # 0
           THEN /\ linkUrl' = OrEmpty(ItemAt(doc, pos).href)
                /\ last' = Ran("setLink", "node", pos)
           ELSE /\ linkUrl' = OrEmpty(LinkAttribute(doc, selection))
                /\ last' = Ran("setLink", "text", 0)
    /\ isLinkDialogOpen' = TRUE
    /\ UNCHANGED <<doc, selection, linkError, uploadVars, pickerVars, call>>

\* attributes built anew from src and href
NewAttrsFromSrc(node, href) == CustomImage(node.src, href)

\* the attributes as they are
NewAttrsAsBefore(node, href) == node

\* { ...currentNode.attrs, href }
NewAttrs(node, href) == [node EXCEPT !.href = href]

\* tr.setNodeMarkup(pos, undefined, newAttrs)
SetNodeMarkup(d, pos, attrs) ==
    [i \in DOMAIN d |->
        [k \in DOMAIN d[i] |-> IF ParaStart(d, i) + k = pos THEN attrs ELSE d[i][k]]]

\* the selection after the node at pos was replaced: a text selection is
\* mapped to itself, a node selection of the node falls to a cursor before it
AfterMarkup(sel, pos) ==
    {sel} \cup (IF sel = [from |-> pos, to |-> pos + 1] THEN {Cursor(pos)} ELSE {})

\* getMarkRange($from, link): the run of linked text around the position
MarkRange(d, q) ==
    LET start == IF IsLinkedText(d, q) THEN q
                 ELSE IF OffsetOf(d, q) > 0 /\ IsLinkedText(d, q - 1) THEN q - 1
                 ELSE 0
        run(a, b) == \A r \in a..b : IsLinkedText(d, r) /\ ParaOf(d, r) = ParaOf(d, q)
        lo == CHOOSE a \in 1..start : run(a, start) /\ \A b \in 1..(a - 1) : ~run(b, start)
        hi == CHOOSE b \in start..DocSize(d) :
                  run(start, b) /\ \A c \in (b + 1)..DocSize(d) : ~run(start, c)
    IN  IF start = 0 THEN [from |-> 0, to |-> 0] ELSE [from |-> lo, to |-> hi + 1]

\* .extendMarkRange("link")
ExtendMarkRange(d, sel) ==
    LET range == MarkRange(d, sel.from)
    IN  IF range.to # 0 /\ range.from <= sel.from /\ range.to >= sel.to THEN range ELSE sel

\* tr.removeMark(from, to, link)
RemoveMark(d, from, to) ==
    [i \in DOMAIN d |->
        [k \in DOMAIN d[i] |->
            IF ParaStart(d, i) + k >= from /\ ParaStart(d, i) + k < to /\ d[i][k].type = "text"
            THEN Text(Null)
            ELSE d[i][k]]]

\* tr.addMark(from, to, link.create({ href }))
AddMark(d, from, to, href) ==
    [i \in DOMAIN d |->
        [k \in DOMAIN d[i] |->
            IF ParaStart(d, i) + k >= from /\ ParaStart(d, i) + k < to /\ d[i][k].type = "text"
            THEN Text(href)
            ELSE d[i][k]]]

\* .unsetLink(): unsetMark("link", { extendEmptyMarkRange: true })
UnsetMark(d, sel) ==
    LET range == MarkRange(d, sel.from)
    IN  IF sel.from = sel.to
        THEN (IF range.to # 0 THEN RemoveMark(d, range.from, range.to) ELSE d)
        ELSE RemoveMark(d, sel.from, sel.to)

\* .setLink({ href }): refused for a URL that isAllowedUri rejects; at a
\* collapsed selection the mark is only stored for the text typed next
SetMark(d, sel, href) ==
    IF isAllowedUri(href) /\ sel.from < sel.to THEN AddMark(d, sel.from, sel.to, href) ELSE d

\* setIsLinkDialogOpen(false); setLinkUrl(""); setLinkError(null)
CloseDialog ==
    /\ isLinkDialogOpen' = FALSE
    /\ linkUrl' = Empty
    /\ linkError' = Null

\* setLinkError("Please enter a valid URL ..."); return
SaveRejected ==
    /\ linkError' = <<"Please enter a valid URL">>
    /\ last' = Ran("handleSaveLink", "invalid", 0)
    /\ UNCHANGED <<doc, selection, isLinkDialogOpen, linkUrl>>

\* the node attribute rewrite of handleSaveLink and unsetLink
RewriteNode(pos, href) ==
    /\ doc' = SetNodeMarkup(doc, pos, NewAttrs(ItemAt(doc, pos), href))
    /\ selection' \in AfterMarkup(selection, pos)

\* the Save button and the Enter key of the dialog
handleSaveLink ==
    /\ isLinkDialogOpen
    /\ IF linkUrl # Empty /\ ~UrlFormatOk(linkUrl)
       THEN SaveRejected
       ELSE /\ LET pos == ScanImage(doc, selection)
               IN  IF pos # 0
                   THEN /\ RewriteNode(pos, OrNull(linkUrl))
                        /\ last' = Ran("handleSaveLink", "node", pos)
                   ELSE /\ selection' = ExtendMarkRange(doc, selection)
                        /\ doc' = IF linkUrl = Empty
                                  THEN UnsetMark(doc, ExtendMarkRange(doc, selection))
                                  ELSE SetMark(doc, ExtendMarkRange(doc, selection), linkUrl)
                        /\ last' = Ran("handleSaveLink", "text", 0)
            /\ CloseDialog
    /\ UNCHANGED <<uploadVars, pickerVars, call>>

\* the Cancel button of the dialog
handleCancelLink ==
    /\ isLinkDialogOpen
    /\ CloseDialog
    /\ last' = Ran("handleCancelLink", "none", 0)
    /\ UNCHANGED <<doc, selection, uploadVars, pickerVars, call>>

\* the dialog closed by Escape or a click outside: onOpenChange(false)
onOpenChange ==
    /\ isLinkDialogOpen
    /\ isLinkDialogOpen' = FALSE
    /\ last' = Ran("onOpenChange", "none", 0)
    /\ UNCHANGED <<doc, selection, linkUrl, linkError, uploadVars, pickerVars, call>>

\* the URLs the user enters into the dialog
Urls ==
    { Empty,
      <<"h", "t", "t", "p", ":", "/", "/", "a">>,
      <<"h", "t", "t", "p", "s", ":", "/", "/", "b", ".", "c">>,
      <<"f", "t", "p", ":", "/", "/", "a">>,
      <<"a", ".", "c">>,
      <<"h", "t", "t", "p", "s", ":", "/", "/">>,
      <<"h", "t", "t", "p", "s", ":", "/", "/", "m", "a", "l", "i", "c", "i", "o", "u", "s",
        "-", "s", "i", "t", "e", ".", "n", "e", "t">> }

\* the input of the dialog: setLinkUrl(e.target.value); setLinkError(null)
onChange ==
    /\ isLinkDialogOpen
    /\ \E u \in Urls : u # linkUrl /\ linkUrl' = u
    /\ linkError' = Null
    /\ last' = Ran("onChange", "none", 0)
    /\ UNCHANGED <<doc, selection, isLinkDialogOpen, uploadVars, pickerVars, call>>

\* the Unlink button of the toolbar
unsetLink ==
    /\ ~isLinkDialogOpen
    /\ LET pos == ScanImage(doc, selection)
       IN  IF pos # 0
           THEN /\ RewriteNode(pos, Null)
                /\ last' = Ran("unsetLink", "node", pos)
           ELSE /\ selection' = ExtendMarkRange(doc, selection)
                /\ doc' = UnsetMark(doc, ExtendMarkRange(doc, selection))
                /\ last' = Ran("unsetLink", "text", 0)
    /\ UNCHANGED <<dialogVars, uploadVars, pickerVars, call>>

\* the document unsetLink leaves: node branch (236-249) or text branch (252)
unsetLinkDoc(d, sel) ==
    LET pos == ScanImage(d, sel)
    IN  IF pos # 0
        THEN SetNodeMarkup(d, pos, NewAttrs(ItemAt(d, pos), Null))
        ELSE UnsetMark(d, ExtendMarkRange(d, sel))

\* the document handleSaveLink leaves for a URL that passed its check
handleSaveLinkDoc(d, sel, url) ==
    LET pos == ScanImage(d, sel)
    IN  IF pos # 0
        THEN SetNodeMarkup(d, pos, NewAttrs(ItemAt(d, pos), OrNull(url)))
        ELSE IF url = Empty
        THEN UnsetMark(d, ExtendMarkRange(d, sel))
        ELSE SetMark(d, ExtendMarkRange(d, sel), url)

----------------------------------------------------------------------------
(* The HTML rules of CustomImage: renderHTML and parseHTML *)

\* a set of name-value pairs as attributes: a function on the names
Attrs(pairs) ==
    [n \in {p[1] : p \in pairs} |-> (CHOOSE p \in pairs : p[1] = n)[2]]

\* an element: its tag, its attributes, its child elements
El(tag, attrs, kids) == [tag |-> tag, attrs |-> attrs, kids |-> kids]

\* element.getAttribute(name): null where the attribute is absent
getAttribute(el, name) == IF name \in DOMAIN el.attrs THEN el.attrs[name] ELSE Null

\* a value that an if takes as true: neither null nor the empty string
Truthy(v) == v # Null /\ v # Empty

\* every attribute written, its value as a string
RenderedAttributesAsStrings(node) ==
    {<<n, IF node[n] = Null THEN <<"n", "u", "l", "l">> ELSE node[n]>> :
        n \in {"src", "alt", "title", "width", "height", "href"}}

\* the renderHTML of the attributes, merged: src, alt and title have none and
\* are handed on as they are, width, height and href only where truthy
RenderedAttributes(node) ==
    {<<"src", node.src>>, <<"alt", node.alt>>, <<"title", node.title>>}
    \cup (IF ~Truthy(node.width) THEN {} ELSE {<<"width", node.width>>})
    \cup (IF ~Truthy(node.height) THEN {} ELSE {<<"height", node.height>>})
    \cup (IF ~Truthy(node.href) THEN {} ELSE {<<"href", node.href>>})

\* renderHTML({ HTMLAttributes }): the output specification, attributes as pairs;
\* mergeAttributes(this.options.HTMLAttributes, imgAttributes) with the options empty
renderHTML(HTMLAttributes) ==
    LET hrefs == {p[2] : p \in {q \in HTMLAttributes : q[1] = "href"}}
        href == IF hrefs = {} THEN Null ELSE CHOOSE h \in hrefs : TRUE
        imgAttributes == {p \in HTMLAttributes : p[1] # "href"}
        mergedImgAttributes == imgAttributes
    IN  IF Truthy(href)
        THEN El("a", {<<"href", href>>}, <<El("img", mergedImgAttributes, <<>>)>>)
        ELSE El("img", mergedImgAttributes, <<>>)

\* the document engine writes an output specification as markup: an
\* attribute whose value is null is not written
RECURSIVE RenderSpec(_)
RenderSpec(spec) ==
    El(spec.tag,
       Attrs({p \in spec.attrs : p[2] # Null}),
       [k \in DOMAIN spec.kids |-> RenderSpec(spec.kids[k])])

\* the markup of a customImage node
Serialize(node) == RenderSpec(renderHTML(RenderedAttributes(node)))

\* addOptions: allowBase64: false
allowBase64 == FALSE

\* [src^="data:"]
StartsWithData(src) == HasAt(src, <<"d", "a", "t", "a", ":">>, 1)

\* tag: "a[href] img[src]": an img with a src below an a with an href
AnchorRuleMatches(el, ancestors) ==
    /\ el.tag = "img"
    /\ "src" \in DOMAIN el.attrs
    /\ \E k \in DOMAIN ancestors :
          ancestors[k].tag = "a" /\ "href" \in DOMAIN ancestors[k].attrs

\* tag: allowBase64 ? "img[src]" : 'img[src]:not([src^="data:"])'
ImageRuleMatches(el) ==
    /\ el.tag = "img"
    /\ "src" \in DOMAIN el.attrs
    /\ allowBase64 \/ ~StartsWithData(el.attrs["src"])

\* href read from the image element
AnchorRuleAttrsOfImage(el, ancestors) ==
    Image(getAttribute(el, "src"), getAttribute(el, "alt"), getAttribute(el, "title"),
          getAttribute(el, "width"), getAttribute(el, "height"), getAttribute(el, "href"))

\* getAttrs of the first rule: href from dom.parentNode
AnchorRuleAttrs(el, ancestors) ==
    Image(getAttribute(el, "src"), getAttribute(el, "alt"), getAttribute(el, "title"),
          getAttribute(el, "width"), getAttribute(el, "height"),
          IF ancestors = <<>> THEN Null
          ELSE getAttribute(ancestors[Len(ancestors)], "href"))

\* getAttrs of the second rule: href: null
ImageRuleAttrs(el) ==
    Image(getAttribute(el, "src"), getAttribute(el, "alt"), getAttribute(el, "title"),
          getAttribute(el, "width"), getAttribute(el, "height"), Null)

\* the parseHTML of the attributes width, height and href, read from the
\* element itself: a value that is not null takes the place of the rule's
WithAttributeParse(el, attrs) ==
    [attrs EXCEPT
        !.width = IF getAttribute(el, "width") # Null THEN getAttribute(el, "width") ELSE @,
        !.height = IF getAttribute(el, "height") # Null THEN getAttribute(el, "height") ELSE @,
        !.href = IF getAttribute(el, "href") # Null THEN getAttribute(el, "href") ELSE @]

\* rules tried in the other order: the bare-image rule first
ParseElementImageFirst(el, ancestors) ==
    IF ImageRuleMatches(el)
    THEN <<WithAttributeParse(el, ImageRuleAttrs(el))>>
    ELSE IF AnchorRuleMatches(el, ancestors)
    THEN <<WithAttributeParse(el, AnchorRuleAttrs(el, ancestors))>>
    ELSE <<>>

\* the rules of parseHTML() tried in their order on one element: the nodes made of it
ParseElement(el, ancestors) ==
    IF AnchorRuleMatches(el, ancestors)
    THEN <<WithAttributeParse(el, AnchorRuleAttrs(el, ancestors))>>
    ELSE IF ImageRuleMatches(el)
    THEN <<WithAttributeParse(el, ImageRuleAttrs(el))>>
    ELSE <<>>

\* the customImage nodes parsed from a sequence of elements, in document
\* order; an element no rule takes is walked through
RECURSIVE ParseAll(_, _)
ParseAll(els, ancestors) ==
    IF els = <<>> THEN <<>>
    ELSE (IF ParseElement(Head(els), ancestors) # <<>>
          THEN ParseElement(Head(els), ancestors)
          ELSE ParseAll(Head(els).kids, Append(ancestors, Head(els))))
         \o ParseAll(Tail(els), ancestors)

\* the customImage nodes of a fragment of markup
Parse(html) == ParseAll(html, <<>>)

\* the attribute sets of customImage nodes: src absent, plain, empty or a
\* data: URL, the others null, empty or a value
RuleNodes ==
    {Image(src, alt, title, width, height, href) :
        src \in {Null, Empty, <<"s">>, <<"d", "a", "t", "a", ":", "x">>},
        alt \in {Null, Empty, <<"x">>},
        title \in {Null, <<"t">>},
        width \in {Null, Empty, <<"4", "0">>},
        height \in {Null, <<"3", "0">>},
        href \in {Null, Empty, <<"h", "t", "t", "p", ":", "/", "/", "a">>}}

\* markup that getHTML does not write: an anchor without href, an image
\* without src, an image below a span below an anchor, two images
OtherMarkup ==
    LET img(src) == El("img", Attrs({<<"src", src>>, <<"alt", <<"x">>>>}), <<>>)
        a(href, kids) == El("a", Attrs({<<"href", href>>}), kids)
    IN  { <<El("a", Attrs({}), <<img(<<"s">>)>>)>>,
          <<a(<<"u">>, <<El("img", Attrs({<<"alt", <<"x">>>>}), <<>>)>>)>>,
          <<a(<<"u">>, <<El("span", Attrs({}), <<img(<<"s">>)>>)>>)>>,
          <<a(<<"u">>, <<img(<<"s">>), img(<<"r">>)>>)>>,
          <<a(Empty, <<img(<<"s">>)>>)>>,
          <<img(<<"s">>), a(<<"u">>, <<img(<<"d", "a", "t", "a", ":", "x">>)>>)>>,
          <<>> }

\* the markup handed to the parser
ParseInputs == {<<Serialize(node)>> : node \in RuleNodes} \cup OtherMarkup

\* editor.getHTML() writes a node
CallRenderHTML ==
    /\ call.fn = "none"
    /\ \E node \in RuleNodes :
          call' = [fn |-> "renderHTML", arg |-> node, out |-> Serialize(node)]
    /\ UNCHANGED <<doc, selection, uploadVars, dialogVars, pickerVars, last>>

\* content is parsed
CallParseHTML ==
    /\ call.fn = "none"
    /\ \E html \in ParseInputs :
          call' = [fn |-> "parseHTML", arg |-> html, out |-> Parse(html)]
    /\ UNCHANGED <<doc, selection, uploadVars, dialogVars, pickerVars, last>>

----------------------------------------------------------------------------
(* The URL policy called by the Link extension *)

PolicySchemes == { <<"h", "t", "t", "p">>,
                   <<"h", "t", "t", "p", "s">>,
                   <<"f", "t", "p">>,
                   <<"f", "i", "l", "e">>,
                   <<"m", "a", "i", "l", "t", "o">>,
                   <<"j", "a", "v", "a", "s", "c", "r", "i", "p", "t">>,
                   <<"H", "T", "T", "P", "S">> }

PolicySeparators == {<<":">>, <<":", "/", "/">>}

PolicyHosts == { <<>>,
                 <<"a">>,
                 <<"h", "o", "s", "t">>,
                 <<"e", "x", "a", "m", "p", "l", "e", ".", "c", "o", "m">>,
                 <<"m", "a", "l", "i", "c", "i", "o", "u", "s", "-", "s", "i", "t", "e", ".", "n", "e", "t">>,
                 <<"e", "x", "a", "m", "p", "l", "e", "-", "p", "h", "i", "s", "h", "i", "n", "g", ".", "c", "o", "m">>,
                 <<"M", "a", "l", "i", "c", "i", "o", "u", "s", "-", "S", "i", "t", "e", ".", "n", "e", "t">> }

PolicyTails == {<<>>, <<"/", "x">>, <<":", "8", "0">>}

\* the inputs of the policy: with a scheme, without one, and javascript:alert(1)
PolicyInputs ==
    {sc \o sep \o h \o t : sc \in PolicySchemes, sep \in PolicySeparators,
                              h \in PolicyHosts, t \in PolicyTails}
    \cup {h \o t : h \in PolicyHosts, t \in PolicyTails}
    \cup {<<"j", "a", "v", "a", "s", "c", "r", "i", "p", "t", ":", "a", "l", "e", "r", "t", "(", "1", ")">>}

\* the extension asks the policy about a URL; the policy and the HTML rules
\* keep no state, so one call is followed in a behaviour
CallIsAllowedUri ==
    /\ call.fn = "none"
    /\ \E url \in PolicyInputs :
          call' = [fn |-> "isAllowedUri", arg |-> url,
                   out |-> IF isAllowedUri(url) THEN "accepted" ELSE "rejected"]
    /\ UNCHANGED <<doc, selection, uploadVars, dialogVars, pickerVars, last>>

----------------------------------------------------------------------------
(* The file picker of the menu bar: handleFileChange *)

\* the URL the transport answers with for a picked file
PickedUrl == <<"u", "0">>

\* the document with the range from..to replaced by an inline node
ReplaceRange(d, from, to, node) ==
    LET i == ParaOf(d, from)
        j == ParaOf(d, to)
        joined == SubSeq(d[i], 1, OffsetOf(d, from)) \o <<node>>
                  \o SubSeq(d[j], OffsetOf(d, to) + 1, Len(d[j]))
    IN  SubSeq(d, 1, i - 1) \o <<joined>> \o SubSeq(d, j + 1, Len(d))

\* commands.setImage(options): insertContent({ type: this.name, attrs: options })
\* puts the node in the place of the selection the editor has now
setImage(src) ==
    /\ doc' = ReplaceRange(doc, selection.from, selection.to, CustomImage(src, Null))
    /\ selection' = Cursor(selection.from + 1)
    /\ last' = Ran("setImage", "inserted", selection.from)

\* the change event with the toolbar button enabled at all times
handleFileChangeAnyTime ==
    /\ ItemCount(doc) < MaxItems
    /\ \E type \in {"none"} \cup FileTypes :
          IF type = "none"
          THEN /\ last' = Ran("handleFileChange", "no file", 0)
               /\ picker' = [picker EXCEPT !.value = "none"]
               /\ UNCHANGED isUploading
          ELSE IF type \notin acceptedTypes
          THEN /\ last' = Ran("handleFileChange", "toast.error", 0)
               /\ picker' = [picker EXCEPT !.value = type]
               /\ UNCHANGED isUploading
          ELSE /\ isUploading' = TRUE
               /\ picker' = [st |-> "uploading", from |-> selection.from, value |-> type]
               /\ last' = Ran("handleFileChange", "uploadFile", selection.from)
    /\ UNCHANGED <<doc, selection, uploadVars, dialogVars, call>>

\* the change event of the hidden file input; the toolbar button that opens
\* the picker is disabled while isUploading. The input keeps the file that was
\* picked until the finally block clears it
handleFileChange ==
    /\ ~isUploading
    /\ ItemCount(doc) < MaxItems
    /\ \E type \in {"none"} \cup FileTypes :
          IF type = "none"
          THEN /\ last' = Ran("handleFileChange", "no file", 0)
               /\ picker' = [picker EXCEPT !.value = "none"]
               /\ UNCHANGED isUploading
          ELSE IF type \notin acceptedTypes
          THEN /\ last' = Ran("handleFileChange", "toast.error", 0)
               /\ picker' = [picker EXCEPT !.value = type]
               /\ UNCHANGED isUploading
          ELSE /\ isUploading' = TRUE
               /\ picker' = [st |-> "uploading", from |-> selection.from, value |-> type]
               /\ last' = Ran("handleFileChange", "uploadFile", selection.from)
    /\ UNCHANGED <<doc, selection, uploadVars, dialogVars, call>>

\* await uploadFile(file) resolves: the try block goes on, then finally
PickerResolve ==
    /\ picker.st = "uploading"
    /\ setImage(PickedUrl)
    /\ isUploading' = FALSE
    /\ picker' = [picker EXCEPT !.st = "idle", !.value = "none"]
    /\ UNCHANGED <<uploadVars, dialogVars, call>>

\* await uploadFile(file) rejects: catch, then finally
PickerReject ==
    /\ picker.st = "uploading"
    /\ last' = Ran("handleFileChange", "upload failed", 0)
    /\ isUploading' = FALSE
    /\ picker' = [picker EXCEPT !.st = "idle", !.value = "none"]
    /\ UNCHANGED <<doc, selection, uploadVars, dialogVars, call>>

----------------------------------------------------------------------------
(* Initial states *)

\* no handler of the menu bar has run yet
NoOp == [op |-> "none", mode |-> "none", pos |-> 0, n |-> 0, rep |-> FALSE]

\* no upload in flight, the file input empty
NoPicker == [st |-> "idle", from |-> 0, value |-> "none"]

\* neither the URL policy nor an HTML rule was called yet
NoCall == [fn |-> "none", arg |-> <<>>, out |-> <<>>]

\* the state after construction but for the document (the content prop) and
\* the place of the cursor in it
Idle ==
    /\ selection \in {Cursor(q) : q \in InsidePositions(doc)}
    /\ gestures = <<>>
    /\ tasks = <<>>
    /\ log = <<>>
    /\ isLinkDialogOpen = FALSE
    /\ linkUrl = Empty
    /\ linkError = Null
    /\ isUploading = FALSE
    /\ picker = NoPicker
    /\ last = NoOp
    /\ call = NoCall

\* the editor constructed with a paragraph of two characters
UploadDoc == << <<Text(Null), Text(Null)>> >>

InitUpload ==
    /\ doc = UploadDoc
    /\ Idle

UrlA == <<"h", "t", "t", "p", ":", "/", "/", "a">>

\* the editor constructed with a paragraph of one character
InitPicker ==
    /\ doc = << <<Text(Null)>> >>
    /\ Idle

\* the editor constructed with content that holds text, linked text and images
LinkDocs ==
    { << <<Text(Null),
           Image(<<"s", "1">>, <<"a">>, <<"t">>, <<"4", "0">>, <<"3", "0">>, Null),
           Text(UrlA)>> >>,
      << <<Image(<<"s", "1">>, <<"a">>, Null, <<"4", "0">>, Null, UrlA),
           CustomImage(<<"s", "2">>, Null),
           Text(Null)>> >> }

InitLink ==
    /\ doc \in LinkDocs
    /\ Idle

----------------------------------------------------------------------------
(* The upload pipeline: the gestures, the uploads settling, the user editing *)

NextUpload ==
    \/ handleDrop
    \/ handlePaste
    \/ UploadSettle
    \/ DeleteBack

SpecUpload == InitUpload /\ [][NextUpload]_vars

\* every upload that was started is settled by the transport in the end
FairUpload == SpecUpload /\ WF_vars(UploadSettle)

----------------------------------------------------------------------------
(* The file picker while the user edits *)

NextPicker ==
    \/ handleFileChange
    \/ PickerResolve
    \/ PickerReject
    \/ MoveCursor
    \/ SelectRange
    \/ TypeText
    \/ DeleteBack

SpecPicker == InitPicker /\ [][NextPicker]_vars

----------------------------------------------------------------------------
(* The URL policy and the HTML rules of the extensions, called on their inputs *)

InitRules ==
    /\ doc = << <<Text(Null)>> >>
    /\ Idle

NextRules ==
    \/ CallIsAllowedUri
    \/ CallRenderHTML
    \/ CallParseHTML

SpecRules == InitRules /\ [][NextRules]_vars

----------------------------------------------------------------------------
(* The link dialog while the user selects *)

NextLink ==
    \/ setLink
    \/ onChange
    \/ handleSaveLink
    \/ handleCancelLink
    \/ onOpenChange
    \/ unsetLink
    \/ MoveCursor
    \/ SelectRange

SpecLink == InitLink /\ [][NextLink]_vars

----------------------------------------------------------------------------
(* Reading the log *)

\* the places of the log where gesture g did e
EventsOf(e, g) == {n \in DOMAIN log : log[n].e = e /\ log[n].g = g}

\* the places of the log where e happened for file i of gesture g
FileEvents(e, g, i) == {n \in EventsOf(e, g) : log[n].i = i}

HasAccepted(g) == \E i \in DOMAIN gestures[g].files : gestures[g].files[i] \in acceptedTypes

HasRejected(g) == \E i \in DOMAIN gestures[g].files : gestures[g].files[i] \notin acceptedTypes

\* task k is settled by this step, its upload resolved
StepResolves(k) ==
    /\ k \in DOMAIN tasks
    /\ tasks[k].st = "pending"
    /\ tasks'[k].st = "settled"
    /\ log'[Len(log) + 1].e = "resolved"

\* task k is settled by this step, its upload rejected
StepRejects(k) ==
    /\ k \in DOMAIN tasks
    /\ tasks[k].st = "pending"
    /\ tasks'[k].st = "settled"
    /\ log'[Len(log) + 1].e = "rejected"

----------------------------------------------------------------------------
(* C1: for a gesture with an accepted file, selection.from is read exactly
   once, at gesture time and before any upload of the gesture is started, and
   every insertion of the gesture's continuations uses the value read then,
   whatever the order of the completions and whatever was edited or inserted
   in between. *)
C1_PositionCapturedOnce ==
    \A g \in DOMAIN gestures :
        HasAccepted(g) =>
            /\ Cardinality(EventsOf("read selection.from", g)) = 1
            /\ \A n \in EventsOf("read selection.from", g) :
                  /\ log[n].v = gestures[g].at
                  /\ \A m \in EventsOf("uploadFile", g) : n < m
                  /\ \A m \in EventsOf("insert", g) : log[m].v = log[n].v

\* two files of one gesture inserted, the second file first, with the cursor
\* no longer where it was at gesture time
C1_Witness ==
    \E g \in DOMAIN gestures :
        /\ selection.from # gestures[g].at
        /\ \E m \in FileEvents("insert", g, 1), n \in FileEvents("insert", g, 2) : n < m

(* C2: a gesture whose files are all of a type outside the allow-list issues
   exactly one warning, starts no upload, never mutates the document, does not
   suppress the default handling and returns false. *)
C2_AllRejected ==
    \A g \in DOMAIN gestures :
        (Len(gestures[g].files) > 0 /\ ~HasAccepted(g)) =>
            /\ Cardinality(EventsOf("toast.warning", g)) = 1
            /\ EventsOf("uploadFile", g) = {}
            /\ \A k \in DOMAIN tasks : tasks[k].g # g
            /\ EventsOf("insert", g) = {}
            /\ EventsOf("preventDefault", g) = {}
            /\ EventsOf("read selection.from", g) = {}
            /\ gestures[g].ret = FALSE

\* a gesture of two files, both rejected
C2_Witness ==
    \E g \in DOMAIN gestures :
        /\ Len(gestures[g].files) = 2
        /\ ~HasAccepted(g)
        /\ Cardinality(EventsOf("toast.warning", g)) = 1

\* what a gesture of accepted and rejected files starts
MixedGestureCounts(g) ==
    /\ Cardinality(EventsOf("toast.warning", g)) = 1
    /\ \A i \in DOMAIN gestures[g].files :
          Cardinality(FileEvents("uploadFile", g, i)) =
              (IF gestures[g].files[i] \in acceptedTypes THEN 1 ELSE 0)

\* C3 as stated: with one accepted file whose upload succeeds, one insertion
C3_Original ==
    \A g \in DOMAIN gestures :
        (HasAccepted(g) /\ HasRejected(g)) =>
            /\ MixedGestureCounts(g)
            /\ \A i \in DOMAIN gestures[g].files :
                  FileEvents("resolved", g, i) # {} =>
                      Cardinality(FileEvents("insert", g, i)) = 1

(* C3, amended: a gesture of accepted and rejected files issues exactly one
   warning, starts no upload for a rejected file and exactly one for each
   accepted file; an accepted file whose upload succeeds is inserted exactly
   once if the captured position is still a position of the document when the
   upload resolves, and not at all otherwise. *)
C3_MixedGesture ==
    /\ [](\A g \in DOMAIN gestures :
            (HasAccepted(g) /\ HasRejected(g)) =>
                /\ MixedGestureCounts(g)
                /\ \A i \in DOMAIN gestures[g].files :
                      Cardinality(FileEvents("insert", g, i)) <= 1)
    /\ [][\A k \in DOMAIN tasks :
            (StepResolves(k) /\ HasRejected(tasks[k].g)) =>
                Cardinality({n \in DOMAIN log' : log'[n].e = "insert"
                                /\ log'[n].g = tasks[k].g /\ log'[n].i = tasks[k].i})
                    = (IF tasks[k].pos <= DocSize(doc) THEN 1 ELSE 0)]_vars

\* one accepted and one rejected file: one warning, one insertion
C3_Witness ==
    \E g \in DOMAIN gestures :
        /\ Len(gestures[g].files) = 2
        /\ HasAccepted(g) /\ HasRejected(g)
        /\ Cardinality(EventsOf("toast.warning", g)) = 1
        /\ Cardinality(EventsOf("insert", g)) = 1
        /\ Cardinality(EventsOf("toast.success", g)) = 1

\* the events of file i of gesture g, counted
Count(e, g, i) == Cardinality(FileEvents(e, g, i))

\* C4 as stated: a sibling whose upload succeeds is inserted and reported
C4_Original ==
    \A k \in DOMAIN tasks :
        Count("rejected", tasks[k].g, tasks[k].i) > 0 =>
            /\ Count("insert", tasks[k].g, tasks[k].i) = 0
            /\ Count("toast.error", tasks[k].g, tasks[k].i) = 1
            /\ \A j \in DOMAIN tasks :
                  (tasks[j].g = tasks[k].g /\ Count("resolved", tasks[j].g, tasks[j].i) > 0) =>
                      /\ Count("insert", tasks[j].g, tasks[j].i) = 1
                      /\ Count("toast.success", tasks[j].g, tasks[j].i) = 1

\* task j belongs to the gesture of task k, and is another task
Sibling(j, k) == j # k /\ tasks[j].g = tasks[k].g

(* C4, amended: a file whose upload the transport rejects is never inserted
   and gets one failure notification naming it; a sibling of the same gesture
   whose upload succeeds, before or after that failure, is inserted at the
   captured position and reported as a success if that position is still a
   position of the document when its upload resolves; if it is not, the
   sibling's own insertion throws, the document is left as it is and the
   sibling gets a failure notification too. *)
C4_SiblingsUnaffected ==
    /\ [](\A k \in DOMAIN tasks :
            Count("rejected", tasks[k].g, tasks[k].i) > 0 =>
                /\ Count("insert", tasks[k].g, tasks[k].i) = 0
                /\ Count("toast.success", tasks[k].g, tasks[k].i) = 0
                /\ Count("toast.error", tasks[k].g, tasks[k].i) = 1)
    /\ [][\A k \in DOMAIN tasks :
            (StepResolves(k) /\ \E j \in DOMAIN tasks : Sibling(j, k)) =>
                IF tasks[k].pos <= DocSize(doc)
                THEN /\ doc' = Insert(doc, tasks[k].pos, CustomImage(FileUrl(tasks[k].g, tasks[k].i), Null))
                     /\ SubSeq(log', Len(log) + 2, Len(log'))
                          = <<Event("insert", tasks[k].g, tasks[k].i, tasks[k].pos),
                              Event("toast.success", tasks[k].g, tasks[k].i, 0)>>
                ELSE /\ doc' = doc
                     /\ SubSeq(log', Len(log) + 2, Len(log'))
                          = <<Event("toast.error", tasks[k].g, tasks[k].i, 0)>>]_vars
    /\ [][\A k \in DOMAIN tasks :
            StepRejects(k) =>
                /\ doc' = doc
                /\ \A j \in DOMAIN tasks : Sibling(j, k) => tasks'[j] = tasks[j]]_vars

\* the first file's upload was rejected, then the second file was inserted
C4_Witness ==
    \E g \in DOMAIN gestures :
        \E m \in FileEvents("rejected", g, 1), n \in FileEvents("insert", g, 2) :
            /\ m < n
            /\ Count("toast.success", g, 2) = 1
            /\ Count("toast.error", g, 1) = 1

\* the file of task k was inserted once and then reported as a success
InsertedThenReported(k) ==
    /\ Count("insert", tasks[k].g, tasks[k].i) = 1
    /\ Count("toast.success", tasks[k].g, tasks[k].i) = 1
    /\ Count("toast.error", tasks[k].g, tasks[k].i) = 0
    /\ \A n \in FileEvents("insert", tasks[k].g, tasks[k].i) :
          n + 1 \in FileEvents("toast.success", tasks[k].g, tasks[k].i)

\* the file of task k was reported as a failure and not inserted
FailedNotInserted(k) ==
    /\ Count("insert", tasks[k].g, tasks[k].i) = 0
    /\ Count("toast.success", tasks[k].g, tasks[k].i) = 0
    /\ Count("toast.error", tasks[k].g, tasks[k].i) = 1

(* C5: with every started upload settled by the transport in the end, every
   accepted file of a gesture reaches exactly one terminal outcome: one
   insertion of a customImage node whose src is the returned fileUrl followed
   by one success notification, or one failure notification and no insertion;
   its upload is invoked exactly once and never again. *)
C5_OneTerminalOutcome ==
    /\ [](\A g \in DOMAIN gestures : \A i \in DOMAIN gestures[g].files :
            gestures[g].files[i] \in acceptedTypes =>
                /\ Count("uploadFile", g, i) = 1
                /\ Cardinality({k \in DOMAIN tasks : tasks[k].g = g /\ tasks[k].i = i}) = 1)
    /\ [](\A k \in DOMAIN tasks :
            IF tasks[k].st = "pending"
            THEN /\ Count("insert", tasks[k].g, tasks[k].i) = 0
                 /\ Count("toast.success", tasks[k].g, tasks[k].i) = 0
                 /\ Count("toast.error", tasks[k].g, tasks[k].i) = 0
            ELSE InsertedThenReported(k) \/ FailedNotInserted(k))
    /\ [][\A k \in DOMAIN tasks :
            (tasks[k].st = "pending" /\ tasks'[k].st = "settled") =>
                /\ \A j \in DOMAIN tasks : j # k => tasks'[j] = tasks[j]
                /\ IF Count("insert", tasks[k].g, tasks[k].i)' = 1
                   THEN /\ CountSrc(doc', FileUrl(tasks[k].g, tasks[k].i))
                             = CountSrc(doc, FileUrl(tasks[k].g, tasks[k].i)) + 1
                        /\ ItemCount(doc') = ItemCount(doc) + 1
                   ELSE doc' = doc]_vars
    /\ \A k \in 1..MaxUploads :
          (k \in DOMAIN tasks /\ tasks[k].st = "pending")
              ~> (k \in DOMAIN tasks /\ tasks[k].st = "settled")

\* of two files of a gesture, one was inserted and reported, and the other,
\* uploaded as well, was not inserted and reported as a failure
C5_Witness ==
    \E j, k \in DOMAIN tasks :
        /\ Sibling(j, k)
        /\ tasks[j].st = "settled" /\ tasks[k].st = "settled"
        /\ InsertedThenReported(j)
        /\ FailedNotInserted(k)
        /\ Count("resolved", tasks[k].g, tasks[k].i) = 1

(* C6: a handler suppresses the default handling (preventDefault, and true
   returned) exactly when a file of the gesture is accepted, and both the
   suppression and the capture of the position come before the first upload
   of the gesture is started. *)
C6_SuppressIffAccepted ==
    \A g \in DOMAIN gestures :
        /\ gestures[g].ret = HasAccepted(g)
        /\ Cardinality(EventsOf("preventDefault", g)) = (IF HasAccepted(g) THEN 1 ELSE 0)
        /\ \A u \in EventsOf("uploadFile", g) :
              /\ \E n \in EventsOf("preventDefault", g) : n < u
              /\ \E n \in EventsOf("read selection.from", g) : n < u

\* a gesture that suppressed the default and started two uploads, after a
\* gesture that did not
C6_Witness ==
    \E g, h \in DOMAIN gestures :
        /\ gestures[g].ret /\ Cardinality(EventsOf("uploadFile", g)) = 2
        /\ ~gestures[h].ret /\ Len(gestures[h].files) > 0

----------------------------------------------------------------------------
(* The file picker and the link dialog: what the claims read *)

\* the step was taken by the handler op of the menu bar
Step(op) == last'.n # last.n /\ last'.op = op

\* the selection range holds a customImage node
ContainsImage(d, sel) ==
    \E q \in ItemPositions(d) :
        ItemAt(d, q).type = "customImage" /\ sel.from <= q /\ q + 1 <= sel.to

\* the link marks of the document, by position
LinkMarks(d) ==
    [q \in ItemPositions(d) |-> IF ItemAt(d, q).type = "text" THEN ItemAt(d, q).link ELSE Null]

\* the customImage nodes of the document, by position
ImageNodes(d) ==
    {<<q, ItemAt(d, q)>> : q \in {r \in ItemPositions(d) : ItemAt(d, r).type = "customImage"}}

\* the URLs of the dialog that the check of handleSaveLink lets through
PassFormat ==
    { <<"h", "t", "t", "p", ":", "/", "/", "a">>,
      <<"h", "t", "t", "p", "s", ":", "/", "/", "b", ".", "c">>,
      <<"h", "t", "t", "p", "s", ":", "/", "/", "m", "a", "l", "i", "c", "i", "o", "u", "s",
        "-", "s", "i", "t", "e", ".", "n", "e", "t">> }

\* C7: an image inserted through the file picker is put at the position
\* that was the selection's start when the file was selected, not at the
\* selection the editor has when the upload resolves.
C7_InsertedAtCapturedPosition ==
    last.op = "setImage" => last.pos = picker.from

\* C8: when the selection range holds at least one customImage node, setLink,
\* handleSaveLink and unsetLink work in node mode: the prefill is the href of
\* a node of the range, and the mutation rewrites that node and leaves every
\* link mark as it was; otherwise they work in text mode and leave every
\* customImage node as it was.
C8_ModeFollowsSelection ==
    [][\A op \in {"setLink", "handleSaveLink", "unsetLink"} :
          Step(op) /\ last'.mode # "invalid" =>
              IF ContainsImage(doc, selection)
              THEN /\ last'.mode = "node"
                   /\ IsImage(doc, last'.pos)
                   /\ selection.from <= last'.pos /\ last'.pos < selection.to
                   /\ ItemPositions(doc') = ItemPositions(doc)
                   /\ LinkMarks(doc') = LinkMarks(doc)
                   /\ \A q \in ItemPositions(doc) \ {last'.pos} : ItemAt(doc', q) = ItemAt(doc, q)
                   /\ op = "setLink" =>
                          /\ doc' = doc
                          /\ linkUrl' = OrEmpty(ItemAt(doc, last'.pos).href)
              ELSE /\ last'.mode = "text"
                   /\ ItemPositions(doc') = ItemPositions(doc)
                   /\ ImageNodes(doc') = ImageNodes(doc)
                   /\ op = "setLink" =>
                          /\ doc' = doc
                          /\ linkUrl' \in {Empty} \cup {LinkMarks(doc)[q] : q \in ItemPositions(doc)}
      ]_vars

\* a commit in node mode was made with a range that holds text and a node
C8_Witness ==
    /\ last.op = "handleSaveLink"
    /\ last.mode = "node"
    /\ selection.to - selection.from >= 2
    /\ ItemAt(doc, last.pos).href # Null
    /\ \E q \in ItemPositions(doc) : IsLinkedText(doc, q)

\* C9: a commit or a detach in node mode changes the href of the targeted
\* node and nothing else: its src, alt, title, width and height, and every
\* other node of the document, are as before; href is the entered URL, or
\* null for the empty URL and for a detach.
C9_OnlyHrefChanges ==
    [][\A op \in {"handleSaveLink", "unsetLink"} :
          Step(op) /\ last'.mode = "node" =>
              LET p == last'.pos
                  href == IF op = "unsetLink" \/ linkUrl = Empty THEN Null ELSE linkUrl
              IN  /\ Len(doc') = Len(doc)
                  /\ \A i \in DOMAIN doc : Len(doc'[i]) = Len(doc[i])
                  /\ \A q \in ItemPositions(doc) :
                        IF q = p
                        THEN /\ ItemAt(doc', q).type = "customImage"
                             /\ ItemAt(doc', q).src = ItemAt(doc, q).src
                             /\ ItemAt(doc', q).alt = ItemAt(doc, q).alt
                             /\ ItemAt(doc', q).title = ItemAt(doc, q).title
                             /\ ItemAt(doc', q).width = ItemAt(doc, q).width
                             /\ ItemAt(doc', q).height = ItemAt(doc, q).height
                             /\ ItemAt(doc', q).href = href
                        ELSE ItemAt(doc', q) = ItemAt(doc, q)
      ]_vars

\* a node that has an alt text and a width was detached
C9_Witness ==
    /\ last.op = "unsetLink"
    /\ last.mode = "node"
    /\ ItemAt(doc, last.pos).alt # Null
    /\ ItemAt(doc, last.pos).width # Null
    /\ ItemAt(doc, last.pos).href = Null

\* C10: a commit with a non-empty URL that the check of handleSaveLink turns
\* down, in node mode and in text mode, leaves the document and the
\* selection as they were, sets the field error and leaves the dialog open
\* with the URL that was entered; while the dialog is open the document
\* changes only by a commit with the empty URL or a URL that check lets through.
C10_InvalidUrlChangesNothing ==
    [][/\ Step("handleSaveLink") /\ linkUrl \notin {Empty} \cup PassFormat =>
              /\ doc' = doc
              /\ selection' = selection
              /\ linkError' # Null
              /\ isLinkDialogOpen'
              /\ linkUrl' = linkUrl
       /\ isLinkDialogOpen /\ doc' # doc =>
              /\ Step("handleSaveLink")
              /\ linkUrl \in {Empty} \cup PassFormat
      ]_vars

\* a commit with ftp://a was turned down with a node in the selection
C10_Witness ==
    /\ last.op = "handleSaveLink"
    /\ last.mode = "invalid"
    /\ isLinkDialogOpen
    /\ linkError # Null
    /\ linkUrl = <<"f", "t", "p", ":", "/", "/", "a">>
    /\ ContainsImage(doc, selection)

\* C11: in every reachable state the href of every customImage node is null
\* or a URL that the URL policy (isAllowedUri) accepts: no node carries an
\* href whose host is in the denylist or whose protocol is disallowed.
C11_NodeHrefPassesPolicy ==
    \A q \in ItemPositions(doc) :
        ItemAt(doc, q).type = "customImage" /\ ItemAt(doc, q).href # Null =>
            isAllowedUri(ItemAt(doc, q).href)

\* C12: unsetLink is idempotent on a customImage node: after one call in
\* node mode the href of the node is null and the handler can run again; a
\* call that follows, with the same selection or another, leaves the href
\* of that node null and its other attributes as they were; a call that
\* follows in node mode on the same node leaves the document as it was.
C12_DetachIdempotent ==
    /\ [](last.op = "unsetLink" /\ last.mode = "node" =>
              /\ IsImage(doc, last.pos)
              /\ ItemAt(doc, last.pos).href = Null
              /\ ~isLinkDialogOpen
              /\ ENABLED unsetLink)
    /\ [][last.op = "unsetLink" /\ last.mode = "node" /\ Step("unsetLink") =>
              /\ ItemAt(doc', last.pos) = ItemAt(doc, last.pos)
              /\ last' = Ran("unsetLink", "node", last.pos) => doc' = doc
         ]_vars

\* unsetLink ran twice in a row on a node that has an alt text, with linked
\* text in the document
C12_Witness ==
    /\ last.op = "unsetLink"
    /\ last.mode = "node"
    /\ last.rep
    /\ ItemAt(doc, last.pos).href = Null
    /\ ItemAt(doc, last.pos).alt # Null
    /\ \E q \in ItemPositions(doc) : IsLinkedText(doc, q)

\* C13: for every document and selection, unsetLink leaves the document
\* that handleSaveLink leaves with the empty URL: in node mode the href of
\* the node is null and its other attributes are kept, in text mode the
\* link mark is removed from the extended mark range.
C13_DetachIsCommitOfEmpty ==
    /\ [](unsetLinkDoc(doc, selection) = handleSaveLinkDoc(doc, selection, Empty))
    /\ [][/\ Step("unsetLink") => doc' = unsetLinkDoc(doc, selection)
          /\ Step("handleSaveLink") /\ last'.mode # "invalid" =>
                 doc' = handleSaveLinkDoc(doc, selection, linkUrl)
          /\ Step("handleSaveLink") /\ linkUrl = Empty =>
                 /\ doc' = unsetLinkDoc(doc, selection)
                 /\ last'.mode = "node" => ItemAt(doc', last'.pos).href = Null
                 /\ last'.mode = "text" =>
                        \A q \in selection.from..(selection.to - 1) : ~IsLinkedText(doc', q)
         ]_vars

\* a commit in node mode left the href null: it was made with the empty URL
C13_Witness ==
    /\ last.op = "handleSaveLink"
    /\ last.mode = "node"
    /\ ~last.rep
    /\ ItemAt(doc, last.pos).href = Null
    /\ ItemAt(doc, last.pos).title # Null

\* C14: isAllowedUri accepts exactly when the input parses as a URL (as
\* given when it holds a colon, else with the default protocol and :// put
\* before it), its protocol is none of ftp, file, mailto, its protocol is
\* one of the allowed ones, and its host is not in the denylist; every other
\* input, malformed ones too, is rejected; javascript:alert(1) and
\* ftp://host/x are rejected and example.com is accepted.
C14_PolicyDecision ==
    call.fn = "isAllowedUri" =>
        LET url == call.arg
            given == IF ":" \in {url[j] : j \in DOMAIN url}
                     THEN url
                     ELSE <<"h", "t", "t", "p", "s", ":", "/", "/">> \o url
            parsed == ParseUrl(given)
            scheme == SubSeq(parsed.protocol, 1, Len(parsed.protocol) - 1)
        IN  /\ call.out \in {"accepted", "rejected"}
            /\ call.out = "accepted" <=>
                   /\ parsed.ok
                   /\ scheme \notin {<<"f", "t", "p">>, <<"f", "i", "l", "e">>, <<"m", "a", "i", "l", "t", "o">>}
                   /\ scheme \in {<<"h", "t", "t", "p">>, <<"h", "t", "t", "p", "s">>}
                   /\ parsed.hostname \notin {<<"e", "x", "a", "m", "p", "l", "e", "-", "p", "h", "i", "s", "h", "i", "n", "g", ".", "c", "o", "m">>,
                                              <<"m", "a", "l", "i", "c", "i", "o", "u", "s", "-", "s", "i", "t", "e", ".", "n", "e", "t">>}
            /\ url = <<"j", "a", "v", "a", "s", "c", "r", "i", "p", "t", ":", "a", "l", "e", "r", "t", "(", "1", ")">> => call.out = "rejected"
            /\ url = <<"f", "t", "p", ":", "/", "/", "h", "o", "s", "t", "/", "x">> => call.out = "rejected"
            /\ url = <<"e", "x", "a", "m", "p", "l", "e", ".", "c", "o", "m">> => call.out = "accepted"
            /\ url = <<>> => call.out = "rejected"

\* the policy turned down a URL of a denylisted host written with capitals
C14_Witness ==
    /\ call.fn = "isAllowedUri"
    /\ call.arg = <<"H", "T", "T", "P", "S", ":", "/", "/", "M", "a", "l", "i", "c", "i", "o", "u", "s", "-", "S", "i", "t", "e", ".", "n", "e", "t", "/", "x">>
    /\ call.out = "rejected"

----------------------------------------------------------------------------
(* The HTML rules: what the claims read *)

\* the img element of the markup of a node
ImgOf(markup) == IF markup.tag = "img" THEN markup ELSE markup.kids[1]

\* the node with null for the width, height and href that serialize as null does
Written(node) ==
    [node EXCEPT !.width = IF @ = Empty THEN Null ELSE @,
                 !.height = IF @ = Empty THEN Null ELSE @,
                 !.href = IF @ = Empty THEN Null ELSE @]

\* C15 as stated: for every attribute set with a src, the markup of the node
\* parses to one node, and that node serializes to the same markup.
C15_Original ==
    call.fn = "renderHTML" /\ call.arg.src # Null =>
        /\ Len(Parse(<<call.out>>)) = 1
        /\ Serialize(Parse(<<call.out>>)[1]) = call.out

\* C15: for every attribute set with a src, but those whose src starts with
\* data: while href is null or empty, the markup of the node parses to one
\* node, which has the attributes of the node (null for an empty width,
\* height or href) and serializes to the same markup; the markup of a node
\* whose src starts with data: and whose href is null or empty is a bare img
\* that no parse rule takes.
C15_RoundTrip ==
    call.fn = "renderHTML" /\ call.arg.src # Null =>
        IF HasAt(call.arg.src, <<"d", "a", "t", "a", ":">>, 1) /\ call.arg.href \in {Null, Empty}
        THEN /\ call.out.tag = "img"
             /\ Parse(<<call.out>>) = <<>>
        ELSE /\ Len(Parse(<<call.out>>)) = 1
             /\ Parse(<<call.out>>)[1] = Written(call.arg)
             /\ Serialize(Parse(<<call.out>>)[1]) = call.out

\* a node with every attribute set was written as an anchor around an img
C15_Witness ==
    /\ call.fn = "renderHTML"
    /\ call.arg = Image(<<"s">>, <<"x">>, <<"t">>, <<"4", "0">>, <<"3", "0">>,
                        <<"h", "t", "t", "p", ":", "/", "/", "a">>)
    /\ call.out.tag = "a"
    /\ Len(Parse(<<call.out>>)) = 1

\* C16: an img with a src that is a child of an anchor with an href parses
\* to exactly one customImage node, with the href of the anchor and the src
\* of the img: never two nodes for it, never a node whose href is null.
C16_AnchorWrappedImage ==
    call.fn = "parseHTML" =>
        \A e \in DOMAIN call.arg :
            LET a == call.arg[e]
            IN  /\ Len(call.arg) = 1
                /\ a.tag = "a"
                /\ "href" \in DOMAIN a.attrs
                /\ a.kids # <<>>
                /\ \A k \in DOMAIN a.kids :
                      a.kids[k].tag = "img" /\ "src" \in DOMAIN a.kids[k].attrs
                => /\ Len(call.out) = Len(a.kids)
                   /\ \A k \in DOMAIN a.kids :
                         /\ call.out[k].type = "customImage"
                         /\ call.out[k].href = a.attrs["href"]
                         /\ call.out[k].href # Null
                         /\ call.out[k].src = a.kids[k].attrs["src"]

\* an anchor around one img with a width was parsed to one node
C16_Witness ==
    /\ call.fn = "parseHTML"
    /\ Len(call.arg) = 1
    /\ call.arg[1].tag = "a"
    /\ Len(call.arg[1].kids) = 1
    /\ Len(call.out) = 1
    /\ call.out[1].href = <<"h", "t", "t", "p", ":", "/", "/", "a">>
    /\ call.out[1].src = <<"s">>
    /\ call.out[1].width = <<"4", "0">>

\* C17: an attribute whose value is null is not in the markup of the node:
\* src, alt, title, width, height are attributes of the img only where the
\* node has a value for them, and then with that value; a node whose href is
\* null is written without an anchor and without an href.
C17_NullIsOmitted ==
    call.fn = "renderHTML" =>
        /\ \A name \in {"src", "alt", "title", "width", "height"} :
              /\ call.arg[name] = Null => name \notin DOMAIN ImgOf(call.out).attrs
              /\ name \in DOMAIN ImgOf(call.out).attrs =>
                     /\ call.arg[name] # Null
                     /\ ImgOf(call.out).attrs[name] = call.arg[name]
        /\ DOMAIN ImgOf(call.out).attrs \subseteq {"src", "alt", "title", "width", "height"}
        /\ call.arg.href = Null => call.out.tag = "img"
        /\ call.out.tag = "a" =>
               /\ DOMAIN call.out.attrs = {"href"}
               /\ call.out.attrs["href"] = call.arg.href
               /\ call.arg.href # Null

\* a node with a height and no width was written with height and without width
C17_Witness ==
    /\ call.fn = "renderHTML"
    /\ call.arg.width = Null
    /\ call.arg.height # Null
    /\ call.arg.alt = Null
    /\ call.out.tag = "img"
    /\ DOMAIN call.out.attrs = {"src", "height"}

\* C18: the markup of a node is an anchor that carries the href and wraps
\* the img exactly when the href of the node is not null, and the bare img
\* exactly when it is null; href is never an attribute of the img.
C18_AnchorIffHref ==
    call.fn = "renderHTML" =>
        /\ call.arg.href # Null <=>
               /\ call.out.tag = "a"
               /\ call.out.attrs = Attrs({<<"href", call.arg.href>>})
               /\ Len(call.out.kids) = 1
               /\ call.out.kids[1].tag = "img"
        /\ call.arg.href = Null <=> call.out.tag = "img"
        /\ "href" \notin DOMAIN ImgOf(call.out).attrs

----------------------------------------------------------------------------
(* Concurrency of the uploads *)

\* the accepted files of gesture g
AcceptedOf(g) == {i \in DOMAIN gestures[g].files : gestures[g].files[i] \in acceptedTypes}

\* the places of the log where the upload of a file of gesture g completed
CompletionsOf(g) == EventsOf("resolved", g) \cup EventsOf("rejected", g)

(* C19: once a handler has returned for a gesture, the upload of every
   accepted file of the gesture has been started, and every start is in the
   log before any completion of an upload of the gesture; a pending upload
   can resolve or be rejected next whatever the state of its siblings, so the
   uploads complete in any order; and a completed upload has completed once,
   with one notification for its file. *)
C19_UploadsStartTogether ==
    /\ \A g \in DOMAIN gestures :
          /\ gestures[g].ret =>
                \A i \in AcceptedOf(g) :
                    /\ Count("uploadFile", g, i) = 1
                    /\ \E k \in DOMAIN tasks : tasks[k].g = g /\ tasks[k].i = i
          /\ \A a \in EventsOf("uploadFile", g) : \A b \in CompletionsOf(g) : a < b
    /\ \A k \in DOMAIN tasks :
          IF tasks[k].st = "pending"
          THEN /\ ENABLED UploadResolve(k)
               /\ ENABLED UploadReject(k)
               /\ Count("resolved", tasks[k].g, tasks[k].i) = 0
               /\ Count("rejected", tasks[k].g, tasks[k].i) = 0
          ELSE /\ Count("resolved", tasks[k].g, tasks[k].i)
                    + Count("rejected", tasks[k].g, tasks[k].i) = 1
               /\ Count("toast.success", tasks[k].g, tasks[k].i)
                    + Count("toast.error", tasks[k].g, tasks[k].i) = 1

\* the two files of one gesture have completed, the second before the first
C19_Witness ==
    \E j, k \in DOMAIN tasks :
        /\ Sibling(j, k)
        /\ j < k
        /\ tasks[j].st = "settled" /\ tasks[k].st = "settled"
        /\ \E a \in CompletionsOf(tasks[j].g) : \E b \in CompletionsOf(tasks[k].g) :
              /\ log[a].i = tasks[j].i
              /\ log[b].i = tasks[k].i
              /\ b < a

\* the srcs the uploads of the gestures can return
FileUrls ==
    {FileUrl(g, i) : g \in 1..MaxUploads, i \in UNION {DOMAIN files : files \in FileLists}}

\* the step adds one customImage node with the src of task k to the document
\* as it is and takes nothing from it
AddsNodeOf(k) ==
    /\ ItemCount(doc') = ItemCount(doc) + 1
    /\ \A src \in FileUrls :
          CountSrc(doc', src) =
              CountSrc(doc, src) + (IF src = FileUrl(tasks[k].g, tasks[k].i) THEN 1 ELSE 0)
    /\ Count("insert", tasks[k].g, tasks[k].i)' = 1

\* C20 as stated: every upload that resolves adds one customImage node with
\* its fileUrl to the document, and no node of a sibling or of another
\* gesture is lost by it.
C20_Original == [][\A k \in DOMAIN tasks : StepResolves(k) => AddsNodeOf(k)]_vars

(* C20, amended: the continuation of an upload that resolves inserts into the
   document as it is at that moment, in the step of the resolution: if the
   captured position is still a position of the document, the document gains
   one customImage node with the fileUrl of the file and keeps every other
   item, the nodes of siblings and of other gestures included; if it is not,
   the insertion throws, the document is unchanged and the file gets a failure
   notification. A pending upload has inserted nothing. *)
C20_InsertionsIndependent ==
    /\ [][\A k \in DOMAIN tasks :
            StepResolves(k) =>
                IF CanInsert(doc, tasks[k].pos)
                THEN AddsNodeOf(k)
                ELSE /\ doc' = doc
                     /\ Count("insert", tasks[k].g, tasks[k].i)' = 0
                     /\ Count("toast.error", tasks[k].g, tasks[k].i)' = 1]_vars
    /\ [](\A k \in DOMAIN tasks :
            tasks[k].st = "pending" =>
                /\ Count("insert", tasks[k].g, tasks[k].i) = 0
                /\ CountSrc(doc, FileUrl(tasks[k].g, tasks[k].i)) = 0)

\* the two files of a gesture were inserted, the second first, and the
\* document holds the node of each
C20_Witness ==
    \E j, k \in DOMAIN tasks :
        /\ Sibling(j, k)
        /\ j < k
        /\ \E a \in FileEvents("insert", tasks[j].g, tasks[j].i) :
              \E b \in FileEvents("insert", tasks[k].g, tasks[k].i) : b < a
        /\ CountSrc(doc, FileUrl(tasks[j].g, tasks[j].i)) = 1
        /\ CountSrc(doc, FileUrl(tasks[k].g, tasks[k].i)) = 1

----------------------------------------------------------------------------
(* Failures of the insertion *)

\* the upload of task k resolved and its insertion threw
InsertionFailed(k) ==
    /\ tasks[k].st = "settled"
    /\ Count("resolved", tasks[k].g, tasks[k].i) = 1
    /\ Count("insert", tasks[k].g, tasks[k].i) = 0

(* C21: when an upload resolves and the captured position is no longer a
   position of the document, the throw of the insertion is caught in the
   continuation: the step ends with the task settled and the handler of
   .catch run, nothing leaves the task uncaught, the document and the
   selection are as before, and every other task is as before; a sibling
   that is pending after that can still resolve and be rejected. *)
C21_InsertionFailureCaught ==
    /\ [][\A k \in DOMAIN tasks :
            StepResolves(k) /\ ~CanInsert(doc, tasks[k].pos) =>
                /\ doc' = doc
                /\ selection' = selection
                /\ log' = log \o <<Event("resolved", tasks[k].g, tasks[k].i, 0),
                                   Event("toast.error", tasks[k].g, tasks[k].i, 0)>>
                /\ \A j \in DOMAIN tasks : j # k => tasks'[j] = tasks[j]]_vars
    /\ [](\A n \in DOMAIN log : log[n].e # "uncaught")
    /\ [](\A j, k \in DOMAIN tasks :
            Sibling(j, k) /\ InsertionFailed(j) /\ tasks[k].st = "pending" =>
                ENABLED UploadResolve(k) /\ ENABLED UploadReject(k))

\* the insertion of one file of a gesture threw and was reported, and its
\* sibling, pending at that moment, completed after it with its own outcome
C21_Witness ==
    \E j, k \in DOMAIN tasks :
        /\ Sibling(j, k)
        /\ InsertionFailed(j)
        /\ Count("toast.error", tasks[j].g, tasks[j].i) = 1
        /\ tasks[k].st = "settled"
        /\ Count("rejected", tasks[k].g, tasks[k].i) = 1
        /\ Count("toast.error", tasks[k].g, tasks[k].i) = 1
        /\ \A a \in FileEvents("toast.error", tasks[j].g, tasks[j].i) :
              \A b \in FileEvents("rejected", tasks[k].g, tasks[k].i) : a < b

----------------------------------------------------------------------------
(* The node the range scan ends with *)

\* the customImage nodes the scan of the selection is handed
ImagesInRange(d, sel) == {q \in Visited(d, sel.from, sel.to) : IsImage(d, q)}

\* C22: when the selection range holds several customImage nodes, setLink,
\* handleSaveLink and unsetLink work on the first of them in document order:
\* the prefill is the href of the first node, and the rewrite changes the
\* first node and no later one.
C22_FirstImageInRange ==
    [][\A op \in {"setLink", "handleSaveLink", "unsetLink"} :
          Step(op) /\ last'.mode = "node" /\ Cardinality(ImagesInRange(doc, selection)) > 1 =>
              /\ \A q \in ImagesInRange(doc, selection) : last'.pos <= q
              /\ op = "setLink" =>
                     \A q \in ImagesInRange(doc, selection) :
                         (\A r \in ImagesInRange(doc, selection) : q <= r) =>
                             linkUrl' = OrEmpty(ItemAt(doc, q).href)
              /\ \A q \in ImagesInRange(doc, selection) :
                     (\E r \in ImagesInRange(doc, selection) : r < q) =>
                         ItemAt(doc', q) = ItemAt(doc, q)
      ]_vars

----------------------------------------------------------------------------
(* The failure notification *)

\* C23: a failure notification is issued for a file only if the transport
\* rejected the upload of the file: a file whose upload resolved has no
\* failure notification, and no file has both an insertion and a failure
\* notification.
C23_FailureOnlyIfRejected ==
    \A k \in DOMAIN tasks :
        /\ Count("toast.error", tasks[k].g, tasks[k].i) > 0 =>
               Count("rejected", tasks[k].g, tasks[k].i) = 1
        /\ Count("resolved", tasks[k].g, tasks[k].i) > 0 =>
               Count("toast.error", tasks[k].g, tasks[k].i) = 0
        /\ ~(/\ Count("insert", tasks[k].g, tasks[k].i) > 0
             /\ Count("toast.error", tasks[k].g, tasks[k].i) > 0)

----------------------------------------------------------------------------
(* The order of the nodes of a gesture *)

\* the positions of the document that hold a customImage node with this src
PositionsOfSrc(d, src) == {q \in ItemPositions(d) : IsImage(d, q) /\ ItemAt(d, q).src = src}

\* the user has deleted nothing: the document holds what it held at first and
\* every node that was inserted
NotEdited ==
    ItemCount(doc) = ItemCount(UploadDoc) + Cardinality({n \in DOMAIN log : log[n].e = "insert"})

(* C24: every insertion of a gesture is made at the captured position: the
   node of an upload that resolves while that position is in the inline
   content of a paragraph is put at that position, every item that was at or
   after it is one position further, and every item before it is where it
   was. While the user has deleted nothing, the captured position of every
   task is in the inline content of a paragraph, and of two files of a
   gesture that are both inserted, the node of the one that completed later
   is before the node of the one that completed earlier, whatever their
   order in the gesture. *)
C24_LaterCompletionFirst ==
    /\ [][\A k \in DOMAIN tasks :
            StepResolves(k) /\ IsInside(doc, tasks[k].pos) =>
                /\ ItemAt(doc', tasks[k].pos) = CustomImage(FileUrl(tasks[k].g, tasks[k].i), Null)
                /\ \A q \in ItemPositions(doc) :
                      IF q >= tasks[k].pos
                      THEN ItemAt(doc', q + 1) = ItemAt(doc, q)
                      ELSE ItemAt(doc', q) = ItemAt(doc, q)]_vars
    /\ [](NotEdited =>
            /\ \A k \in DOMAIN tasks : IsInside(doc, tasks[k].pos)
            /\ \A j, k \in DOMAIN tasks :
                  /\ Sibling(j, k)
                  /\ \E a \in FileEvents("insert", tasks[j].g, tasks[j].i) :
                        \E b \in FileEvents("insert", tasks[k].g, tasks[k].i) : a < b
                  => /\ Cardinality(PositionsOfSrc(doc, FileUrl(tasks[j].g, tasks[j].i))) = 1
                     /\ Cardinality(PositionsOfSrc(doc, FileUrl(tasks[k].g, tasks[k].i))) = 1
                     /\ \A qj \in PositionsOfSrc(doc, FileUrl(tasks[j].g, tasks[j].i)) :
                           \A qk \in PositionsOfSrc(doc, FileUrl(tasks[k].g, tasks[k].i)) :
                               qk < qj)

\* the first file of a gesture completed first and its node is right after
\* the node of the second file, which is at the captured position
C24_Witness ==
    \E j, k \in DOMAIN tasks :
        /\ Sibling(j, k)
        /\ j < k
        /\ \E a \in FileEvents("insert", tasks[j].g, tasks[j].i) :
              \E b \in FileEvents("insert", tasks[k].g, tasks[k].i) : a < b
        /\ NotEdited
        /\ PositionsOfSrc(doc, FileUrl(tasks[k].g, tasks[k].i)) = {tasks[k].pos}
        /\ PositionsOfSrc(doc, FileUrl(tasks[j].g, tasks[j].i)) = {tasks[k].pos + 1}

----------------------------------------------------------------------------
(* Base64 sources *)

\* C25: with allowBase64 false, parsing produces no customImage node whose
\* src starts with data:, neither from a bare img nor from an img in an
\* anchor.
C25_NoBase64Parsed ==
    call.fn = "parseHTML" /\ ~allowBase64 =>
        \A n \in DOMAIN call.out : ~StartsWithData(call.out[n].src)

----------------------------------------------------------------------------
(* The file picker's flag *)

(* C26: isUploading is true exactly while the upload of a picked file is in
   flight. It becomes true only in the handleFileChange that starts the
   upload of a file of an accepted type; a handleFileChange for no file or
   for a file of another type leaves it false and starts nothing; when the
   upload resolves, and when it is rejected, it is false again and the file
   input is empty; and while it is true no change event can come, so no
   second upload is started while one is in flight. *)
C26_UploadingFlag ==
    /\ [](isUploading <=> picker.st = "uploading")
    /\ [](isUploading => picker.value \in acceptedTypes /\ ~ENABLED handleFileChange)
    /\ [][/\ (~isUploading /\ isUploading') =>
                /\ Step("handleFileChange")
                /\ last'.mode = "uploadFile"
                /\ picker'.value \in acceptedTypes
          /\ (Step("handleFileChange") /\ last'.mode \in {"no file", "toast.error"}) =>
                /\ ~isUploading'
                /\ picker'.st = "idle"
          /\ (picker.st = "uploading" /\ picker'.st = "idle") =>
                /\ ~isUploading'
                /\ picker'.value = "none"
                /\ last'.op = "setImage" \/ last'.mode = "upload failed"
          /\ (picker.st = "uploading" /\ picker'.st = "uploading") =>
                picker' = picker]_vars

\* an upload was started from the picker and failed: the flag is false and
\* the file input empty
C26_Witness ==
    /\ last.op = "handleFileChange"
    /\ last.mode = "upload failed"
    /\ ~isUploading
    /\ picker.st = "idle"
    /\ picker.value = "none"
    /\ picker.from > 0

----------------------------------------------------------------------------
(* The error of the link dialog *)

(* C27: an error under the input means that the dialog is open and that the
   URL in the input is one the check of handleSaveLink turns down; editing
   the input, a save that goes through and Cancel leave no error; and
   setLink opens the dialog with no error and with the prefill of the
   selection. *)
C27_ErrorOnlyWhileOpen ==
    /\ [](linkError # Null =>
            /\ isLinkDialogOpen
            /\ linkUrl # Empty
            /\ ~UrlFormatOk(linkUrl))
    /\ [][/\ Step("onChange") => linkError' = Null
          /\ Step("handleCancelLink") => linkError' = Null
          /\ (Step("handleSaveLink") /\ last'.mode # "invalid") => linkError' = Null
          /\ Step("setLink") =>
                /\ isLinkDialogOpen'
                /\ linkError' = Null
                /\ linkUrl' = IF ScanImage(doc, selection) # 0
                              THEN OrEmpty(ItemAt(doc, ScanImage(doc, selection)).href)
                              ELSE OrEmpty(LinkAttribute(doc, selection))]_vars

=============================================================================
